---------------------------- MODULE Spec2Model ----------------------------
(***************************************************************************)
(* Model of mk_flash_embed_tone.py: the generator that scans a directory   *)
(* for audio files and writes esp_embed_tone.h and esp_embed_tone.cmake.   *)
(*                                                                         *)
(* A Python str is a sequence of one-character strings.  The fixed pieces  *)
(* of a format string are kept as single elements (a literal chunk), the   *)
(* interpolated values (file names, numbers) are spelled out character by  *)
(* character, and a line break is the element NL.                          *)
(***************************************************************************)
EXTENDS Naturals, Sequences, FiniteSets, TLC

\* ------------------------------------------------------------ bounds ----
MaxFiles == 3
MaxBroken == 1
MaxRuns == 2

\* ----------------------------------------------------- str primitives ----
NL == "\n"

DIGITS == <<"0", "1", "2", "3", "4", "5", "6", "7", "8", "9">>

UPPERCASE == <<"A", "B", "C", "D", "E", "F", "G", "H", "I", "J", "K", "L", "M",
               "N", "O", "P", "Q", "R", "S", "T", "U", "V", "W", "X", "Y", "Z">>

LOWERCASE == <<"a", "b", "c", "d", "e", "f", "g", "h", "i", "j", "k", "l", "m",
               "n", "o", "p", "q", "r", "s", "t", "u", "v", "w", "x", "y", "z">>

\* The characters file names are drawn from, in code point order.
CODEPOINTS == <<" ", "+", "-", ".">> \o DIGITS \o UPPERCASE \o <<"_">> \o LOWERCASE

Range(s) == {s[i] : i \in DOMAIN s}

\* the first position of x in seq, 0 when it has none
IndexIn(seq, x) ==
    IF \E i \in DOMAIN seq : seq[i] = x
    THEN CHOOSE i \in DOMAIN seq : seq[i] = x /\ \A j \in 1..(i - 1) : seq[j] # x
    ELSE 0

\* ord(c), up to an order-preserving renumbering
ord(c) == IndexIn(CODEPOINTS, c)

DigitSet == Range(DIGITS)
UpperSet == Range(UPPERCASE)
LowerSet == Range(LOWERCASE)

isdigit(c) == c \in DigitSet

\* str.lower() / str.upper()
lower(s) == [i \in DOMAIN s |->
               IF s[i] \in UpperSet THEN LOWERCASE[IndexIn(UPPERCASE, s[i])] ELSE s[i]]

upper(s) == [i \in DOMAIN s |->
               IF s[i] \in LowerSet THEN UPPERCASE[IndexIn(LOWERCASE, s[i])] ELSE s[i]]

\* str.replace(old, new) for one-character old and new
replace(s, old, new) == [i \in DOMAIN s |-> IF s[i] = old THEN new ELSE s[i]]

\* str.endswith(tuple of suffixes)
endswith(s, suffixes) ==
    \E k \in DOMAIN suffixes :
        /\ Len(suffixes[k]) <= Len(s)
        /\ SubSeq(s, Len(s) - Len(suffixes[k]) + 1, Len(s)) = suffixes[k]

\* str < str: Python compares strings by code point, shorter prefix first
StrLess(a, b) ==
    \E k \in 1..(Len(b)) :
        /\ \A j \in 1..(k - 1) : j <= Len(a) /\ a[j] = b[j]
        /\ k - 1 <= Len(a)
        /\ \/ Len(a) = k - 1
           \/ Len(a) >= k /\ ord(a[k]) < ord(b[k])

\* f'{n}' for a non-negative int
RECURSIVE Dec(_)
Dec(n) == IF n < 10 THEN <<DIGITS[n + 1]>> ELSE Dec(n \div 10) \o <<DIGITS[(n % 10) + 1]>>

\* sep.join(parts)
RECURSIVE join(_, _)
join(sep, parts) ==
    IF parts = <<>> THEN <<>>
    ELSE IF Len(parts) = 1 THEN parts[1]
    ELSE parts[1] \o sep \o join(sep, Tail(parts))

\* list.extend of the pieces produced per entry
RECURSIVE Flatten(_)
Flatten(ss) == IF ss = <<>> THEN <<>> ELSE Head(ss) \o Flatten(Tail(ss))

\* --------------------------------------------------------- constants ----
LICENSE_STR(y) ==
    <<"/*", NL,
      " * SPDX-FileCopyrightText: ">> \o Dec(y) \o <<" Espressif Systems (Shanghai) CO LTD", NL,
      " *", NL,
      " * SPDX-License-Identifier: Unlicense OR CC0-1.0", NL,
      " */", NL,
      NL>>

GEN_HEAD_FILE_NAME ==
    <<"e", "s", "p", "_", "e", "m", "b", "e", "d", "_", "t", "o", "n", "e", ".", "h">>

GEN_CMAKE_FILE_NAME ==
    <<"e", "s", "p", "_", "e", "m", "b", "e", "d", "_", "t", "o", "n", "e", ".",
      "c", "m", "a", "k", "e">>

SUPPORTED_EXTENSIONS ==
    << <<".", "w", "a", "v">>, <<".", "m", "p", "3">>,
       <<".", "a", "a", "c">>, <<".", "m", "4", "a">> >>

\* ------------------------------------------------- sanitize_filename ----
sanitize_filename(filename) ==
    LET sanitized == replace(replace(replace(filename, "-", "_"), ".", "_"), " ", "_")
    IN  IF isdigit(sanitized[1])
        THEN <<"t", "o", "n", "e", "_">> \o sanitized
        ELSE sanitized

\* ------------------------------------------------------- environment ----
\* The directory args.path: the files put there by the user (name -> byte
\* size), those whose size cannot be read (a dangling link, say), whether the
\* directory can be listed at all, and the two generated files.
VARIABLES files, broken, listable, hdr, cmk

\* ------------------------------------------------------- program state ----
\* year is datetime.now().year at import; pc is main's position; exit_code is
\* <<>> while main runs and <<code>> once the process has ended.
VARIABLES year, run, pc, file_info, h_content, cmake_content, exit_code

\* ------------------------------------------------------------ history ----
\* listed: what os.listdir returned in this run; calls: the write_file calls of
\* this run with their results; hdr0, cmk0: the generated files as the run
\* found them.
VARIABLES listed, calls, hdr0, cmk0

env == <<files, broken, listable>>
vars == <<files, broken, listable, hdr, cmk, year, run, pc, file_info, h_content,
          cmake_content, exit_code, listed, calls, hdr0, cmk0>>

A_MP3 == <<"a", ".", "m", "p", "3">>
B_WAV == <<"b", ".", "w", "a", "v">>
TONE_1 == <<"1", "-", "t", "o", "n", "e", ".", "w", "a", "v">>
A_B_MP3 == <<"a", " ", "b", ".", "m", "p", "3">>
Z_PLUS_B == <<"Z", "+", "b", ".", "W", "A", "V">>
NOTES_TXT == <<"n", "o", "t", "e", "s", ".", "t", "x", "t">>

\* the names a directory is populated from
NAMES == {A_MP3, B_WAV, TONE_1, Z_PLUS_B, NOTES_TXT}
SIZES == {10, 20}

NoFile == [exists |-> FALSE, data |-> <<>>]
File(data) == [exists |-> TRUE, data |-> data]

\* -------------------------------------------------------- os.listdir ----
DirEntries ==
    DOMAIN files \cup (IF hdr.exists THEN {GEN_HEAD_FILE_NAME} ELSE {})
                 \cup (IF cmk.exists THEN {GEN_CMAKE_FILE_NAME} ELSE {})

RECURSIVE SomeOrder(_)
SomeOrder(S) == IF S = {} THEN <<>>
                ELSE LET x == CHOOSE y \in S : \A z \in S : Len(y) <= Len(z)
                     IN  <<x>> \o SomeOrder(S \ {x})

Rotate(s, k) == [i \in DOMAIN s |-> s[((i + k - 1) % Len(s)) + 1]]
Reverse(s) == [i \in DOMAIN s |-> s[Len(s) + 1 - i]]

\* os.listdir returns the entries in arbitrary order: the rotations of one
\* order and of its reverse (every order of up to three entries).
Listings ==
    LET base == SomeOrder(DirEntries)
    IN  IF base = <<>> THEN {<<>>}
        ELSE {Rotate(base, k) : k \in 0..(Len(base) - 1)}
             \cup {Rotate(Reverse(base), k) : k \in 0..(Len(base) - 1)}

\* os.path.getsize
getsize(name) ==
    IF name \in DOMAIN files THEN files[name]
    ELSE IF name = GEN_HEAD_FILE_NAME THEN Len(hdr.data)
    ELSE Len(cmk.data)

\* ----------------------------------------------------- get_file_info ----
\* the listing taken without the extension filter
is_supported_unfiltered(x) == TRUE

is_supported(x) == endswith(lower(x), SUPPORTED_EXTENSIONS)

RECURSIVE insert(_, _)
insert(x, s) == IF s = <<>> THEN <<x>>
                ELSE IF StrLess(Head(s), x) THEN <<Head(s)>> \o insert(x, Tail(s))
                ELSE <<x>> \o s

\* file_list left in the order os.listdir gave
sort_omitted(list) == list

\* list.sort()
RECURSIVE sort(_)
sort(list) == IF list = <<>> THEN <<>> ELSE insert(Head(list), sort(Tail(list)))

\* the loop stopping at the first file whose getsize raises OSError
RECURSIVE stat_all_break(_)
stat_all_break(file_list) ==
    IF file_list = <<>> \/ Head(file_list) \in broken THEN <<>>
    ELSE <<[filename |-> Head(file_list), size |-> getsize(Head(file_list))]>>
         \o stat_all_break(Tail(file_list))

\* the loop reading the size of file_list[0] for every file
stat_all_first_size(file_list) ==
    LET kept == SelectSeq(file_list, LAMBDA f : f \notin broken)
    IN  [i \in DOMAIN kept |-> [filename |-> kept[i], size |-> getsize(kept[1])]]

\* the loop over file_list: a file whose getsize raises OSError is skipped
RECURSIVE stat_all(_)
stat_all(file_list) ==
    IF file_list = <<>> THEN <<>>
    ELSE IF Head(file_list) \in broken THEN stat_all(Tail(file_list))
    ELSE <<[filename |-> Head(file_list), size |-> getsize(Head(file_list))]>>
         \o stat_all(Tail(file_list))

\* The dict is the sequence of its items in insertion order.  listing is
\* what os.listdir returns; listed_ok is FALSE when it raises OSError.
get_file_info(listed_ok, listing) ==
    IF ~listed_ok THEN <<>>
    ELSE LET file_list == sort(SelectSeq(listing, is_supported))
         IN  IF file_list = <<>> THEN <<>> ELSE stat_all(file_list)

\* -------------------------------------------------------- gen_h_file ----
\* Each operator below gives the elements one iteration of the loop adds to
\* one of the lists; an element of a list is a str.
extern_decl(filename, sanitized) ==
    << <<"/**">>,
       <<" * @brief External reference to embedded tone data: ">> \o filename,
       <<" */">>,
       <<"extern const uint8_t ">> \o sanitized \o <<"[] asm(", "\"", "_binary_">>
           \o sanitized \o <<"_start", "\"", ");">>,
       <<>> >>

tone_entry(idx, sanitized, size) ==
    <<"    [">> \o Dec(idx) \o <<"] = {", NL,
      "        .address = ">> \o sanitized \o <<",", NL,
      "        .size    = ">> \o Dec(size) \o <<",", NL,
      "    },">>

enum_entry(idx, sanitized) ==
    <<"    ESP_EMBED_TONE_">> \o upper(sanitized) \o <<" = ">> \o Dec(idx) \o <<",">>

url_entry(idx, filename) ==
    <<"    ", "\"", "embed://tone/">> \o Dec(idx) \o <<"_">>
        \o replace(filename, "-", "_") \o <<"\"", ",">>

\* the manifest naming the sanitized symbol
cmake_entry_sanitized(filename) == <<" ">> \o sanitize_filename(filename)

cmake_entry(filename) == <<" ">> \o filename

\* the sentinel given the last index
url_max_last_index(info) == Len(info) - 1

\* the value of ESP_EMBED_TONE_URL_MAX
url_max(info) == Len(info)

\* enumerate(file_info.items()): idx counts from 0
item_idx(i) == i - 1

h_file_head ==
    << <<"#pragma once">>,
       <<>>,
       <<"/**">>,
       <<" * @brief Structure for embedding tone information">>,
       <<" */">>,
       <<"typedef struct {">>,
       <<"    const uint8_t *address;  /*!< Pointer to the embedded tone data */">>,
       <<"    int           size;      /*!< Size of the tone data in bytes */">>,
       <<"} esp_embed_tone_t;">>,
       <<>> >>

TABLE_OPEN == <<"esp_embed_tone_t g_esp_embed_tone[] = {">>
ENUM_OPEN == <<"enum esp_embed_tone_index {">>
URL_OPEN == <<"const char * esp_embed_tone_url[] = {">>
BLOCK_CLOSE == <<"};">>
URL_MAX == "    ESP_EMBED_TONE_URL_MAX = "
CMAKE_OPEN == <<"set(COMPONENT_EMBED_TXTFILES">>
CMAKE_CLOSE == <<")">>

\* the separator of the final join of cmake_file
cmake_sep == <<>>

gen_h_file(info) ==
    IF info = <<>> THEN [h |-> <<>>, cmake |-> <<>>]
    ELSE
    LET n == Len(info)
        san(i) == sanitize_filename(info[i].filename)
        decls == Flatten([i \in 1..n |-> extern_decl(info[i].filename, san(i))])
        tone_entries == [i \in 1..n |-> tone_entry(item_idx(i), san(i), info[i].size)]
        enum_entries == [i \in 1..n |-> enum_entry(item_idx(i), san(i))]
        url_entries == [i \in 1..n |-> url_entry(item_idx(i), info[i].filename)]
        cmake_file == <<CMAKE_OPEN>> \o [i \in 1..n |-> cmake_entry(info[i].filename)]
                          \o <<CMAKE_CLOSE>>
        h_file == h_file_head \o decls
                    \o << <<"/**">>, <<" * @brief Array of embedded tone information">>,
                          <<" */">>, TABLE_OPEN >>
                    \o tone_entries
                    \o << BLOCK_CLOSE, <<>>,
                          <<"/**">>, <<" * @brief Enumeration for tone URLs">>, <<" */">>,
                          ENUM_OPEN >>
                    \o enum_entries
                    \o << <<URL_MAX>> \o Dec(url_max(info)),
                          BLOCK_CLOSE, <<>>,
                          <<"/**">>, <<" * @brief Array of tone URLs">>, <<" */">>,
                          URL_OPEN >>
                    \o url_entries
                    \o << BLOCK_CLOSE, <<>> >>
    IN  [h |-> join(<<NL>>, h_file), cmake |-> join(cmake_sep, cmake_file)]

\* -------------------------------------------------------- write_file ----
\* fail names the I/O step that raises OSError ("none": no step does).
FailPoints(file, is_header) ==
    {"none", "open", "content"}
        \cup (IF file.exists THEN {"remove"} ELSE {})
        \cup (IF is_header THEN {"banner"} ELSE {})

\* what a write that fails part-way leaves in the file
Partial(content) == SubSeq(content, 1, Len(content) \div 2)

\* the file opened for appending, an existing one not removed
write_file_append(content, file, is_header, fail) ==
    IF fail = "open" THEN [file |-> file, ok |-> FALSE]
    ELSE IF is_header /\ fail = "banner" THEN [file |-> File(file.data), ok |-> FALSE]
    ELSE LET banner == IF is_header THEN LICENSE_STR(year) ELSE <<>>
         IN  IF fail \in {"content", "remove"}
             THEN [file |-> File(file.data \o banner \o Partial(content)), ok |-> FALSE]
             ELSE [file |-> File(file.data \o banner \o content), ok |-> TRUE]

write_file(content, file, is_header, fail) ==
    IF file.exists /\ fail = "remove" THEN [file |-> file, ok |-> FALSE]
    ELSE IF fail = "open" THEN [file |-> NoFile, ok |-> FALSE]
    ELSE IF is_header /\ fail = "banner" THEN [file |-> File(<<>>), ok |-> FALSE]
    ELSE LET banner == IF is_header THEN LICENSE_STR(year) ELSE <<>>
         IN  IF fail = "content"
             THEN [file |-> File(banner \o Partial(content)), ok |-> FALSE]
             ELSE [file |-> File(banner \o content), ok |-> TRUE]

\* -------------------------------------------------------------- main ----
\* Where main goes after each stage: a stage name, or "exit0" / "exit1" for
\* the end of the process with that exit code.
\* main without the check of the scan result
after_scan_unchecked(info) == "gen"

\* main ignoring the result of the header write
after_header_ignored(ok) == "write_cmake"

after_scan(info) == IF info = <<>> THEN "exit1" ELSE "gen"
after_header(ok) == IF ~ok THEN "exit1" ELSE "write_cmake"
after_cmake(ok) == IF ~ok THEN "exit1" ELSE "exit0"

Goto(target) ==
    IF target = "exit0" THEN pc' = "exited" /\ exit_code' = <<0>>
    ELSE IF target = "exit1" THEN pc' = "exited" /\ exit_code' = <<1>>
    ELSE pc' = target /\ UNCHANGED exit_code

Init ==
    /\ files \in UNION {[S -> SIZES] : S \in {T \in SUBSET NAMES : Cardinality(T) <= MaxFiles}}
    /\ broken \in {B \in SUBSET (DOMAIN files) : Cardinality(B) <= MaxBroken}
    /\ listable \in BOOLEAN
    /\ \E stale \in BOOLEAN :
          /\ hdr = IF stale THEN File(<<"stale header">>) ELSE NoFile
          /\ cmk = IF stale THEN File(<<"stale manifest">>) ELSE NoFile
    /\ year = 2025
    /\ run = 1
    /\ pc = "scan"
    /\ file_info = <<>>
    /\ h_content = <<>>
    /\ cmake_content = <<>>
    /\ exit_code = <<>>
    /\ listed = {}
    /\ calls = <<>>
    /\ hdr0 = hdr
    /\ cmk0 = cmk

\* file_info = get_file_info(args.path); if not file_info: sys.exit(1)
Scan ==
    /\ pc = "scan"
    /\ \E listing \in Listings :
          /\ file_info' = get_file_info(listable, listing)
          /\ listed' = IF listable THEN Range(listing) ELSE {}
    /\ Goto(after_scan(file_info'))
    /\ UNCHANGED <<env, hdr, cmk, year, run, h_content, cmake_content, calls, hdr0, cmk0>>

\* h_content, cmake_content = gen_h_file(file_info)
Generate ==
    /\ pc = "gen"
    /\ h_content' = gen_h_file(file_info).h
    /\ cmake_content' = gen_h_file(file_info).cmake
    /\ pc' = "write_h"
    /\ UNCHANGED <<env, hdr, cmk, year, run, file_info, exit_code, listed, calls, hdr0, cmk0>>

\* if not write_file(h_content, h_path, is_header=True): sys.exit(1)
WriteHeader ==
    /\ pc = "write_h"
    /\ \E fail \in FailPoints(hdr, TRUE) :
          LET r == write_file(h_content, hdr, TRUE, fail)
          IN  /\ hdr' = r.file
              /\ calls' = Append(calls, [is_header |-> TRUE, ok |-> r.ok])
              /\ Goto(after_header(r.ok))
    /\ UNCHANGED <<env, cmk, year, run, file_info, h_content, cmake_content, listed,
                   hdr0, cmk0>>

\* if not write_file(cmake_content, cmake_path): sys.exit(1)
WriteCmake ==
    /\ pc = "write_cmake"
    /\ \E fail \in FailPoints(cmk, FALSE) :
          LET r == write_file(cmake_content, cmk, FALSE, fail)
          IN  /\ cmk' = r.file
              /\ calls' = Append(calls, [is_header |-> FALSE, ok |-> r.ok])
              /\ Goto(after_cmake(r.ok))
    /\ UNCHANGED <<env, hdr, year, run, file_info, h_content, cmake_content, listed,
                   hdr0, cmk0>>

\* The script is started again on the directory a successful run left, in
\* the same year or the next.
Rerun ==
    /\ pc = "exited"
    /\ exit_code = <<0>>
    /\ run < MaxRuns
    /\ run' = run + 1
    /\ year' \in {year, year + 1}
    /\ pc' = "scan"
    /\ file_info' = <<>>
    /\ h_content' = <<>>
    /\ cmake_content' = <<>>
    /\ exit_code' = <<>>
    /\ listed' = {}
    /\ calls' = <<>>
    /\ hdr0' = hdr
    /\ cmk0' = cmk
    /\ UNCHANGED <<env, hdr, cmk>>

Next == Scan \/ Generate \/ WriteHeader \/ WriteCmake \/ Rerun

Spec == Init /\ [][Next]_vars

\* ------------------------------------------- reading the artifacts back ----
\* text.split('\n')
SplitLines(text) ==
    LET at == SelectSeq([i \in 1..Len(text) |-> i], LAMBDA i : text[i] = NL)
    IN  [k \in 1..(Len(at) + 1) |->
            SubSeq(text, IF k = 1 THEN 1 ELSE at[k - 1] + 1,
                         IF k = Len(at) + 1 THEN Len(text) ELSE at[k] - 1)]

\* the lines between the line `open` and the next "};" line
Block(lines, open) ==
    LET a == IndexIn(lines, open)
        b == CHOOSE j \in (a + 1)..Len(lines) :
                 /\ lines[j] = BLOCK_CLOSE
                 /\ \A m \in (a + 1)..(j - 1) : lines[m] # BLOCK_CLOSE
    IN  IF a = 0 THEN <<>> ELSE SubSeq(lines, a + 1, b - 1)

Inner(line) == SubSeq(line, 2, Len(line) - 1)

\* one initializer of g_esp_embed_tone: four lines
Initializer(l1, l2, l3, l4) ==
    [index |-> Inner(l1), address |-> Inner(l2), size |-> Inner(l3),
     framed |-> /\ l1[1] = "    [" /\ l1[Len(l1)] = "] = {"
                /\ l2[1] = "        .address = " /\ l2[Len(l2)] = ","
                /\ l3[1] = "        .size    = " /\ l3[Len(l3)] = ","
                /\ l4 = <<"    },">>]

\* one member of the enum
Member(l) ==
    LET eq == IndexIn(l, " = ")
    IN  [name |-> SubSeq(l, 2, eq - 1), value |-> SubSeq(l, eq + 1, Len(l) - 1),
         framed |-> l[1] = "    ESP_EMBED_TONE_" /\ eq > 1 /\ l[Len(l)] = ","]

\* one entry of esp_embed_tone_url
Url(l) ==
    LET u == CHOOSE j \in 4..Len(l) : ~isdigit(l[j]) /\ \A m \in 4..(j - 1) : isdigit(l[m])
    IN  [index |-> SubSeq(l, 4, u - 1), name |-> SubSeq(l, u + 1, Len(l) - 2),
         framed |-> /\ SubSeq(l, 1, 3) = <<"    ", "\"", "embed://tone/">>
                    /\ l[u] = "_"
                    /\ SubSeq(l, Len(l) - 1, Len(l)) = <<"\"", ",">>]

\* The three indexed sections of a header text; the last line of the enum is
\* the sentinel.
ParseHeader(text) ==
    LET lines == SplitLines(text)
        T == Block(lines, TABLE_OPEN)
        E == Block(lines, ENUM_OPEN)
        U == Block(lines, URL_OPEN)
    IN  [table_lines |-> Len(T),
         initializers |-> [k \in 1..(Len(T) \div 4) |->
                              Initializer(T[4 * k - 3], T[4 * k - 2], T[4 * k - 1], T[4 * k])],
         members |-> IF E = <<>> THEN <<>> ELSE [k \in 1..(Len(E) - 1) |-> Member(E[k])],
         sentinel |-> IF E = <<>> THEN <<>> ELSE E[Len(E)],
         urls |-> [k \in 1..Len(U) |-> Url(U[k])]]

\* the keys of the scan result, and the key of a given rank in ascending order
Keys == {file_info[i].filename : i \in DOMAIN file_info}
AtRank(S, k) == CHOOSE f \in S : Cardinality({g \in S : StrLess(g, f)}) = k - 1
Ascending(names) == \A i, j \in DOMAIN names : i < j => StrLess(names[i], names[j])

\* gen_h_file has just returned; h_content and cmake_content keep its result
\* for the rest of the run
Generated == pc = "write_h"

\* ------------------------------------------------------------- claims ----
N == Len(file_info)

\* C1: whenever gen_h_file has run on a scan result of N >= 1 files, the
\* address table, the enum and the URL table each hold N entries with the
\* index values 0..N-1 in this order, and entry i of each is derived from the
\* file name of rank i in ascending order of the original file names.
C1_SameOrderAndIndices ==
    Generated /\ N >= 1 =>
        LET H == ParseHeader(h_content)
        IN  /\ H.table_lines = 4 * N
            /\ Len(H.initializers) = N
            /\ Len(H.members) = N
            /\ Len(H.urls) = N
            /\ \A k \in 1..N :
                  LET f == AtRank(Keys, k)
                  IN  /\ H.initializers[k].framed
                      /\ H.members[k].framed
                      /\ H.urls[k].framed
                      /\ H.initializers[k].index = Dec(k - 1)
                      /\ H.members[k].value = Dec(k - 1)
                      /\ H.urls[k].index = Dec(k - 1)
                      /\ H.initializers[k].address = sanitize_filename(f)
                      /\ H.members[k].name = upper(sanitize_filename(f))
                      /\ H.urls[k].name = replace(f, "-", "_")

\* three files were listed out of order and all three tables are written
C1_Witness ==
    /\ Generated
    /\ N = 3
    /\ Keys = {Z_PLUS_B, TONE_1, A_MP3}
    /\ ParseHeader(h_content).initializers[1].address = sanitize_filename(TONE_1)
    /\ ParseHeader(h_content).members[2].name = <<"Z", "+", "B", "_", "W", "A", "V">>
    /\ ParseHeader(h_content).urls[3].name = A_MP3

\* C9: the initializer at index i carries the byte size of the i-th file of
\* the scan result together with that same file's sanitized symbol; for b.wav
\* of 10 bytes and a.mp3 of 20 bytes entry 0 has size 20 and entry 1 size 10.
C9_SizePairedWithSymbol ==
    Generated /\ N >= 1 =>
        LET H == ParseHeader(h_content)
        IN  /\ Len(H.initializers) = N
            /\ \A k \in 1..N :
                  LET f == AtRank(Keys, k)
                  IN  /\ f \in DOMAIN files
                      /\ H.initializers[k].address = sanitize_filename(f)
                      /\ H.initializers[k].size = Dec(files[f])
            /\ (Keys = {A_MP3, B_WAV} /\ files[A_MP3] = 20 /\ files[B_WAV] = 10 =>
                   /\ H.initializers[1].size = <<"2", "0">>
                   /\ H.initializers[2].size = <<"1", "0">>)

C9_Witness ==
    /\ Generated
    /\ Keys = {A_MP3, B_WAV} /\ files[A_MP3] = 20 /\ files[B_WAV] = 10
    /\ ParseHeader(h_content).initializers[1].size = <<"2", "0">>
    /\ ParseHeader(h_content).initializers[2].address = <<"b", "_", "w", "a", "v">>

\* the supported files os.listdir returned in this run
Matched == {f \in listed : is_supported(f)}

\* C2 as claimed: the sentinel ESP_EMBED_TONE_URL_MAX equals the number N of
\* matched directory entries, and the number of enum members, initializers
\* and URL entries emitted.
C2_SentinelIsMatchedCount ==
    Generated =>
        LET H == ParseHeader(h_content)
        IN  /\ H.sentinel = <<URL_MAX>> \o Dec(Cardinality(Matched))
            /\ Len(H.members) = Cardinality(Matched)
            /\ Len(H.initializers) = Cardinality(Matched)
            /\ Len(H.urls) = Cardinality(Matched)

\* C2 amended: the sentinel equals the number of matched entries whose size
\* could be read, which is the number of enum members, initializers and URL
\* entries emitted.
C2_SentinelIsEntryCount ==
    Generated =>
        LET H == ParseHeader(h_content)
            n == Cardinality(Matched \ broken)
        IN  /\ H.sentinel = <<URL_MAX>> \o Dec(n)
            /\ Len(H.members) = n
            /\ Len(H.initializers) = n /\ H.table_lines = 4 * n
            /\ Len(H.urls) = n

\* a matched file was skipped and two entries were emitted
C2_Witness ==
    /\ Generated
    /\ Cardinality(Matched) = 3
    /\ Cardinality(Matched \ broken) = 2
    /\ ParseHeader(h_content).sentinel = <<URL_MAX, "2">>

\* the manifest text without its opening and closing elements
ManifestBody == SubSeq(cmake_content, 2, Len(cmake_content) - 1)

\* C3 as claimed: the manifest is the opening line, one line per original
\* file name in scan order, and the closing line.
C3_ManifestOneNamePerLine ==
    Generated =>
        LET lines == SplitLines(cmake_content)
        IN  /\ Len(lines) = N + 2
            /\ lines[1] = CMAKE_OPEN
            /\ lines[N + 2] = CMAKE_CLOSE
            /\ \A k \in 1..N : lines[k + 1] \in {file_info[k].filename,
                                                 <<" ">> \o file_info[k].filename}

\* C3 amended: the manifest is one line: the opening, then for each file of
\* the scan result, in scan order, one space and the original file name, then
\* the closing; every original name is there exactly once.
C3_ManifestOneLine ==
    Generated =>
        /\ Head(cmake_content) = CMAKE_OPEN[1]
        /\ cmake_content[Len(cmake_content)] = CMAKE_CLOSE[1]
        /\ ManifestBody = Flatten([k \in 1..N |-> <<" ">> \o file_info[k].filename])
        /\ Len(SplitLines(cmake_content)) = 1
        /\ \A f \in Keys : Cardinality({k \in 1..N : file_info[k].filename = f}) = 1

\* a manifest of two names, one of which sanitization would change
C3_Witness ==
    /\ Generated
    /\ N = 2
    /\ ManifestBody = <<" ">> \o TONE_1 \o <<" ">> \o A_MP3

HeaderCall == [is_header |-> TRUE, ok |-> TRUE]
CmakeCall == [is_header |-> FALSE, ok |-> TRUE]

\* C4: write_file for the manifest is invoked only after write_file for the
\* header returned success; a failed header write ends the run with exit code
\* 1 and leaves the manifest untouched; exit code 0 is reached only after both
\* writes succeeded.
C4_HeaderFailureStopsRun ==
    /\ \A i \in DOMAIN calls : ~calls[i].is_header => i = 2 /\ calls[1] = HeaderCall
    /\ (calls # <<>> /\ ~calls[1].ok) =>
           /\ calls[1].is_header /\ Len(calls) = 1
           /\ exit_code = <<1>>
           /\ cmk = cmk0
    /\ exit_code = <<0>> => calls = <<HeaderCall, CmakeCall>>

\* the header write failed on a directory that held a manifest
C4_Witness ==
    /\ calls = <<[is_header |-> TRUE, ok |-> FALSE]>>
    /\ exit_code = <<1>>
    /\ cmk0.exists

\* the entries of the directory when the run started
DirEntries0 ==
    DOMAIN files \cup (IF hdr0.exists THEN {GEN_HEAD_FILE_NAME} ELSE {})
                 \cup (IF cmk0.exists THEN {GEN_CMAKE_FILE_NAME} ELSE {})

NothingToEmbed == ~listable \/ \A f \in DirEntries0 : ~is_supported(f)

\* C5: a run on a directory with no supported file, or one that cannot be
\* listed, ends after the scan with exit code 1; gen_h_file and write_file are
\* not reached and both generated files are as the run found them.
C5_EmptyScanWritesNothing ==
    NothingToEmbed /\ pc # "scan" =>
        /\ pc = "exited" /\ exit_code = <<1>>
        /\ calls = <<>>
        /\ h_content = <<>> /\ cmake_content = <<>>
        /\ hdr = hdr0 /\ cmk = cmk0

\* a listable directory holding only notes.txt and two older generated files
C5_Witness ==
    /\ pc = "exited"
    /\ listable
    /\ DOMAIN files = {NOTES_TXT}
    /\ listed = {NOTES_TXT, GEN_HEAD_FILE_NAME, GEN_CMAKE_FILE_NAME}
    /\ hdr.exists /\ cmk.exists

IsIdentifier(s) ==
    /\ s # <<>>
    /\ \A i \in DOMAIN s : s[i] \in UpperSet \cup LowerSet \cup DigitSet \cup {"_"}
    /\ ~isdigit(s[1])

\* C6: sanitize_filename returns a valid identifier for every file name the
\* scanner accepts; sanitize("1-tone.wav") = "tone_1_tone_wav" and
\* sanitize("a b.mp3") = "a_b_mp3".
C6_SanitizeGivesIdentifier ==
    /\ sanitize_filename(TONE_1)
          = <<"t", "o", "n", "e", "_", "1", "_", "t", "o", "n", "e", "_", "w", "a", "v">>
    /\ sanitize_filename(A_B_MP3) = <<"a", "_", "b", "_", "m", "p", "3">>
    /\ \A i \in DOMAIN file_info : IsIdentifier(sanitize_filename(file_info[i].filename))

HeaderArtifact == LICENSE_STR(year) \o h_content
ManifestArtifact == cmake_content

IsProperPrefix(p, t) == Len(p) < Len(t) /\ SubSeq(t, 1, Len(p)) = p

\* C7 as claimed: once write_file has returned, with True or False, the
\* target does not exist or holds the complete artifact.
C7_AbsentOrComplete ==
    /\ Len(calls) >= 1 => (~hdr.exists \/ hdr.data = HeaderArtifact)
    /\ Len(calls) >= 2 => (~cmk.exists \/ cmk.data = ManifestArtifact)

Outcome(call, file, file0, artifact) ==
    IF call.ok THEN file = File(artifact)
    ELSE \/ file0.exists /\ file = file0
         \/ ~file.exists
         \/ file.exists /\ IsProperPrefix(file.data, artifact)

\* C7 amended: once write_file has returned True the target holds the
\* complete artifact (banner plus content for the header, content alone for
\* the manifest); once it has returned False the target is the file that was
\* there before, or absent, or a proper prefix of the artifact.
C7_CompleteOnSuccess ==
    /\ Len(calls) >= 1 => Outcome(calls[1], hdr, hdr0, HeaderArtifact)
    /\ Len(calls) >= 2 => Outcome(calls[2], cmk, cmk0, ManifestArtifact)

\* both writes replaced older files and succeeded
C7_Witness ==
    /\ calls = <<HeaderCall, CmakeCall>>
    /\ hdr0.exists /\ cmk0.exists
    /\ hdr0 # hdr
    /\ hdr.data = HeaderArtifact /\ cmk.data = ManifestArtifact

\* a header text without the year of its banner
MaskYear(text) == SubSeq(text, 1, 3) \o SubSeq(text, 4 + Len(Dec(year)), Len(text))

\* C8: a second run on the directory the first run left writes a header
\* equal to the first run's apart from the year in the banner and a manifest
\* equal to the first run's, and the generated files are no entries of it.
C8_RerunIdempotent ==
    run >= 2 =>
        /\ Keys \cap {GEN_HEAD_FILE_NAME, GEN_CMAKE_FILE_NAME} = {}
        /\ (pc = "exited" /\ exit_code = <<0>> =>
               /\ MaskYear(hdr.data) = MaskYear(hdr0.data)
               /\ SubSeq(hdr.data, 1, 3) = SubSeq(hdr0.data, 1, 3)
               /\ cmk = cmk0)

\* the second run, in the next year, has rewritten both files
C8_Witness ==
    /\ run = 2 /\ pc = "exited" /\ exit_code = <<0>>
    /\ year = 2026
    /\ hdr # hdr0
    /\ NOTES_TXT \in listed /\ GEN_HEAD_FILE_NAME \in listed /\ N = 2

\* C10: a file whose size cannot be read is skipped and the scan goes on: the
\* scan result holds exactly the supported entries whose size was read, in
\* ascending order of name and each with its own size, and the run goes on to
\* synthesis and writing whenever one such file remains.
C10_StatFailureSkipsOneFile ==
    pc # "scan" /\ listable =>
        /\ Keys = Matched \ broken
        /\ Ascending([i \in DOMAIN file_info |-> file_info[i].filename])
        /\ \A i \in DOMAIN file_info : file_info[i].size = files[file_info[i].filename]
        /\ (Matched \ broken # {} => pc # "exited" \/ calls # <<>>)

\* a file sorted before a kept one was skipped, and the run completed
C10_Witness ==
    /\ pc = "exited" /\ exit_code = <<0>>
    /\ \E b \in broken \cap Matched : \E f \in Keys : StrLess(b, f)

=============================================================================
